---- MODULE Spec2Model ----
(***************************************************************************)
(* A model of caracal's probing pipeline: the prober driver                *)
(* (src/src/prober.cpp), the PCAP reader (src/src/reader.cpp), the packet  *)
(* builder (src/src/builder.cpp) and the checked narrowing helpers         *)
(* exercised by src/tests/checked_test.cpp.                                *)
(*                                                                         *)
(* The module holds several specifications over one set of variables; each *)
(* specification moves the variables of one component and leaves the       *)
(* others at their idle value.                                             *)
(***************************************************************************)
EXTENDS Integers, Sequences, FiniteSets, TLC

(***************************************************************************)
(* Bounds of the model.                                                    *)
(***************************************************************************)
\* Largest number of probes the iterator yields in one run.
MaxYield == 3
\* Largest config.n_packets tried.
MaxNPackets == 2
\* Largest config.max_probes tried.
MaxMaxProbes == 2
\* Largest number of lines of the CSV input stream.
MaxLines == 3
\* Largest payload size of a packet handed to the builder.
MaxPayload == 3
\* Largest number of checksum-setting calls made on one packet.
MaxTweaks == 2
\* Largest number of frames in a capture file.
MaxFrames == 3

(***************************************************************************)
(* Program constants.                                                      *)
(***************************************************************************)
\* prober.cpp:19
batch_size == 128

VARIABLES
  \* ---- Prober::probe (prober.cpp) ----
  config,        \* const Config&: the fields probe() reads
  pc,            \* position of the driver thread in probe()
  p,             \* Probe p{}: the probe the iterator writes into
  i,             \* the for-loop counter of line 96
  stats,         \* Statistics::Prober stats
  snifferState,  \* Sniffer: "idle" | "running" | "stopped"
  stopCalls,     \* number of sniffer.stop() calls
  waits,         \* number of rl.wait() calls
  sendLog,       \* the ids of the probes handed to sender.send, in call order
  yielded,       \* number of times the iterator returned true
  passed,        \* ids of the yielded probes that reached the send loop
  exhausted,     \* the iterator has returned false
  prefix_excl,   \* LPM prefix_excl
  prefix_incl,   \* LPM prefix_incl
  ret,           \* <<>> until probe() returns, then <<stats>>
  \* ---- Prober::probe(config, istream) (prober.cpp:127-143) ----
  input,         \* the whole stream as it was handed to probe()
  is,            \* std::istream& is: the lines not yet read
  valid,         \* bool valid of the iterator lambda
  warned,        \* number of spdlog::warn calls of the lambda
  csvYielded,    \* the probes the lambda has handed to the driver, in order
  \* ---- caracal::Builder (builder.cpp) ----
  packet,        \* Packet: the protocols and the payload size of the view
  buf,           \* the bytes of the packet, from packet.l3() on
  prevBuf,       \* buf as it was when the last builder function was called
  bcalls,        \* the builder functions called, with their arguments
  bthrew,        \* "" or the exception that left the last builder function
  \* ---- dminer::Reader::read (reader.cpp) ----
  rargs,         \* the arguments round and include_rtt
  capture,       \* the frames of input_file the sniffer has not read yet
  handled,       \* the frames the handler was called with, in call order
  statistics,    \* Statistics::Sniffer statistics
  output_csv,    \* the lines written to output_csv
  infoLogs,      \* number of spdlog::info(statistics) calls
  rpc,           \* position in read(): "idle" | "sniff_loop" | "done"
  rret,          \* <<>> until read() returns, then <<statistics>>
  \* ---- dminer::Checked (checked.hpp) ----
  cfn,           \* "" or the function called: "numeric_cast" | "hton"
  csize,         \* sizeof(T) of the call
  carg,          \* the argument of the call
  cres,          \* what the call returned or threw
  \* ---- the detached stats_thread of probe() (prober.cpp:55-61) ----
  logAccess      \* "none", or what log_stats() last read through its
                 \* references: "live" objects or "dangling" ones

proberVars == <<config, pc, p, i, stats, snifferState, stopCalls, waits,
                sendLog, yielded, passed, exhausted, prefix_excl, prefix_incl,
                ret>>
csvVars == <<input, is, valid, warned, csvYielded>>
builderVars == <<packet, buf, prevBuf, bcalls, bthrew>>
readerVars == <<rargs, capture, handled, statistics, output_csv, infoLogs,
                rpc, rret>>
checkedVars == <<cfn, csize, carg, cres>>
loggerVars == <<logAccess>>
vars == <<proberVars, csvVars, builderVars, readerVars, checkedVars,
          loggerVars>>

(***************************************************************************)
(* Optional values (std::optional): the empty set, or a one-element set.   *)
(***************************************************************************)
None == {}
Some(v) == {v}
HasValue(o) == o /= {}
Value(o) == CHOOSE v \in o : TRUE

(***************************************************************************)
(* The inputs of the prober.                                               *)
(***************************************************************************)
\* Probe TTLs tried: below, inside and above the filter window [2, 2].
TTLs == {1, 2, 3}
\* Destination addresses tried.
Addrs == {"10.0.0.1", "11.0.0.1", "12.0.0.1", "13.0.0.1"}
\* A prefix is modelled by the set of the addresses it covers: of Addrs,
\* 10.0.0.1 is denied only, 11.0.0.1 allowed only, 12.0.0.1 both and
\* 13.0.0.1 neither.
Prefix10 == {"10.0.0.1"}
Prefix11 == {"11.0.0.1"}
Prefix12 == {"12.0.0.1"}

\* LPM::lookup: true iff some stored prefix covers the address.
Lookup(lpm, addr) == \E prefix \in lpm : addr \in prefix

\* The fields of Config that probe() reads.  A prefix file is modelled by
\* the set of prefixes it holds.
Configs ==
  [filter_min_ttl   : {None, Some(2)},
   filter_max_ttl   : {None, Some(2)},
   prefix_excl_file : {None, Some({Prefix10, Prefix12})},
   prefix_incl_file : {None, Some({Prefix11, Prefix12})},
   n_packets        : 1..MaxNPackets,
   max_probes       : {None} \cup {Some(m) : m \in 0..MaxMaxProbes}]

\* The configurations tried for the pacing of batches: every filter set,
\* and n_packets large enough for the sends of a run to pass batch_size.
PacingConfigs ==
  [filter_min_ttl   : {Some(2)},
   filter_max_ttl   : {Some(2)},
   prefix_excl_file : {Some({Prefix10, Prefix12})},
   prefix_incl_file : {Some({Prefix11, Prefix12})},
   n_packets        : {batch_size \div 2 + 1},
   max_probes       : {Some(batch_size)}]

\* Probe p{}: a value-initialised probe.
DefaultProbe == [id |-> 0, ttl |-> 0, dst_addr |-> "::"]

\* Statistics::Prober stats: every counter starts at zero.
ZeroStats ==
  [read |-> 0, filtered_lo_ttl |-> 0, filtered_hi_ttl |-> 0,
   filtered_prefix_excl |-> 0, filtered_prefix_not_incl |-> 0,
   sent |-> 0, failed |-> 0]

(***************************************************************************)
(* Prober::probe(const Config&, Iterator&), prober.cpp:21-125.             *)
(***************************************************************************)
\* Lines 24-40: load the prefix files, construct and start the sniffer.
Setup ==
  /\ pc = "start"
  /\ prefix_excl' = IF HasValue(config.prefix_excl_file)
                    THEN Value(config.prefix_excl_file) ELSE {}
  /\ prefix_incl' = IF HasValue(config.prefix_incl_file)
                    THEN Value(config.prefix_incl_file) ELSE {}
  /\ snifferState' = "running"
  /\ pc' = "sender"
  /\ UNCHANGED <<config, p, i, stats, stopCalls, waits, sendLog, yielded,
                 passed, ret, exhausted>>

\* Lines 43-64: the sender, the rate limiter, the statistics, the detached
\* logging thread and Probe p{}.
SenderCtor ==
  /\ pc = "sender"
  /\ stats' = ZeroStats
  /\ p' = DefaultProbe
  /\ pc' = "loop"
  /\ UNCHANGED <<config, i, snifferState, stopCalls, waits, sendLog, yielded,
                 passed, prefix_excl, prefix_incl, ret, exhausted>>

\* Line 43: the Sender constructor fails with std::system_error, which
\* leaves probe() by exception.
SenderCtorThrows ==
  /\ pc = "sender"
  /\ pc' = "threw"
  /\ UNCHANGED <<config, p, i, stats, snifferState, stopCalls, waits, sendLog,
                 yielded, passed, prefix_excl, prefix_incl, ret, exhausted>>

\* Line 66, it(p) returns true: the iterator has written probe q into p.
\* The id is the position of the probe in the iterator's output.
IterYield ==
  /\ pc = "loop"
  /\ yielded < MaxYield
  /\ \E t \in TTLs, d \in Addrs :
       p' = [id |-> yielded + 1, ttl |-> t, dst_addr |-> d]
  /\ yielded' = yielded + 1
  /\ pc' = "read"
  /\ UNCHANGED <<config, i, stats, snifferState, stopCalls, waits, sendLog,
                 passed, prefix_excl, prefix_incl, ret, exhausted>>

\* Line 66, it(p) returns false: the while loop ends.
IterEnd ==
  /\ pc = "loop"
  /\ exhausted' = TRUE
  /\ pc' = "drain"
  /\ UNCHANGED <<config, p, i, stats, snifferState, stopCalls, waits, sendLog,
                 yielded, passed, prefix_excl, prefix_incl, ret>>

\* Line 67.
ReadInc ==
  /\ pc = "read"
  /\ stats' = [stats EXCEPT !.read = @ + 1]
  /\ pc' = "filter"
  /\ UNCHANGED <<config, p, i, snifferState, stopCalls, waits, sendLog,
                 yielded, passed, prefix_excl, prefix_incl, ret, exhausted>>

\* The conditions of lines 70, 75, 83 and 90.
TtlTooLow == HasValue(config.filter_min_ttl) /\ p.ttl < Value(config.filter_min_ttl)
TtlTooHigh == HasValue(config.filter_max_ttl) /\ p.ttl > Value(config.filter_max_ttl)
PrefixExcluded == HasValue(config.prefix_excl_file) /\ Lookup(prefix_excl, p.dst_addr)
PrefixNotIncluded == HasValue(config.prefix_incl_file) /\ ~Lookup(prefix_incl, p.dst_addr)

\* What a filtered probe leaves alone: `continue` goes back to line 66.
Continue ==
  /\ pc' = "loop"
  /\ UNCHANGED <<config, p, i, snifferState, stopCalls, waits, sendLog,
                 yielded, passed, prefix_excl, prefix_incl, ret, exhausted>>

\* Lines 70-74.
FilterLoTtl ==
  /\ pc = "filter"
  /\ TtlTooLow
  /\ stats' = [stats EXCEPT !.filtered_lo_ttl = @ + 1]
  /\ Continue

\* Lines 75-79.
FilterHiTtl ==
  /\ pc = "filter"
  /\ ~TtlTooLow
  /\ TtlTooHigh
  /\ stats' = [stats EXCEPT !.filtered_hi_ttl = @ + 1]
  /\ Continue

\* Lines 83-87.
FilterPrefixExcl ==
  /\ pc = "filter"
  /\ ~TtlTooLow
  /\ ~TtlTooHigh
  /\ PrefixExcluded
  /\ stats' = [stats EXCEPT !.filtered_prefix_excl = @ + 1]
  /\ Continue

\* FilterPrefixNotIncl tested without regard to the deny list.
FilterPrefixNotIncl_before_excl ==
  /\ pc = "filter"
  /\ ~TtlTooLow
  /\ ~TtlTooHigh
  /\ PrefixNotIncluded
  /\ stats' = [stats EXCEPT !.filtered_prefix_not_incl = @ + 1]
  /\ Continue

\* Lines 90-94.
FilterPrefixNotIncl ==
  /\ pc = "filter"
  /\ ~TtlTooLow
  /\ ~TtlTooHigh
  /\ ~PrefixExcluded
  /\ PrefixNotIncluded
  /\ stats' = [stats EXCEPT !.filtered_prefix_not_incl = @ + 1]
  /\ Continue

\* Line 96, uint64_t i = 0: no filter matched.
EnterSendLoop ==
  /\ pc = "filter"
  /\ ~TtlTooLow
  /\ ~TtlTooHigh
  /\ ~PrefixExcluded
  /\ ~PrefixNotIncluded
  /\ i' = 0
  /\ passed' = Append(passed, p.id)
  /\ pc' = "for"
  /\ UNCHANGED <<config, p, stats, snifferState, stopCalls, waits, sendLog,
                 yielded, prefix_excl, prefix_incl, ret, exhausted>>

\* ForTest with <= for <: one copy too many.
ForTest_one_more ==
  /\ pc = "for"
  /\ pc' = IF i <= config.n_packets THEN "send" ELSE "maxcheck"
  /\ UNCHANGED <<config, p, i, stats, snifferState, stopCalls, waits, sendLog,
                 yielded, passed, prefix_excl, prefix_incl, ret, exhausted>>

\* Line 96, i < config.n_packets.
ForTest ==
  /\ pc = "for"
  /\ pc' = IF i < config.n_packets THEN "send" ELSE "maxcheck"
  /\ UNCHANGED <<config, p, i, stats, snifferState, stopCalls, waits, sendLog,
                 yielded, passed, prefix_excl, prefix_incl, ret, exhausted>>

\* AfterSend with the batch counted in successful sends only.
AfterSend_sent_only(st) ==
  /\ stats' = st
  /\ waits' = IF st.sent % batch_size = 0 THEN waits + 1 ELSE waits
  /\ i' = i + 1
  /\ pc' = "for"
  /\ UNCHANGED <<config, p, snifferState, stopCalls, yielded, passed,
                 prefix_excl, prefix_incl, ret, exhausted>>

\* Lines 105-108 and the i++ of line 96, after the counters became st.
AfterSend(st) ==
  /\ stats' = st
  /\ waits' = IF (st.sent + st.failed) % batch_size = 0 THEN waits + 1 ELSE waits
  /\ i' = i + 1
  /\ pc' = "for"
  /\ UNCHANGED <<config, p, snifferState, stopCalls, yielded, passed,
                 prefix_excl, prefix_incl, ret, exhausted>>

\* Lines 99-100: sender.send(p) returns.
SendOk ==
  /\ pc = "send"
  /\ sendLog' = Append(sendLog, p.id)
  /\ AfterSend([stats EXCEPT !.sent = @ + 1])

\* SendFail with the failure left out of the counters.
SendFail_uncounted ==
  /\ pc = "send"
  /\ sendLog' = Append(sendLog, p.id)
  /\ AfterSend(stats)

\* SendFail with the exception not caught: it leaves probe().
SendFail_uncaught ==
  /\ pc = "send"
  /\ sendLog' = Append(sendLog, p.id)
  /\ pc' = "threw"
  /\ UNCHANGED <<config, p, i, stats, snifferState, stopCalls, waits,
                 yielded, passed, prefix_excl, prefix_incl, ret, exhausted>>

\* Lines 99, 101-104: sender.send(p) throws std::system_error.
SendFail ==
  /\ pc = "send"
  /\ sendLog' = Append(sendLog, p.id)
  /\ AfterSend([stats EXCEPT !.failed = @ + 1])

\* MaxProbesReached with > for >=.
MaxProbesReached_strict ==
  HasValue(config.max_probes) /\ stats.sent > Value(config.max_probes)

\* MaxProbesReached with the failed sends counted towards the cap.
MaxProbesReached_counts_failed ==
  /\ HasValue(config.max_probes)
  /\ stats.sent + stats.failed >= Value(config.max_probes)

\* The condition of line 111.
MaxProbesReached ==
  HasValue(config.max_probes) /\ stats.sent >= Value(config.max_probes)

\* MaxProbesBreak as a return: the sleep and sniffer.stop() are skipped.
MaxProbesBreak_returns ==
  /\ pc = "maxcheck"
  /\ MaxProbesReached
  /\ pc' = "return"
  /\ UNCHANGED <<config, p, i, stats, snifferState, stopCalls, waits, sendLog,
                 yielded, passed, prefix_excl, prefix_incl, ret, exhausted>>

\* Lines 111-114: break.
MaxProbesBreak ==
  /\ pc = "maxcheck"
  /\ MaxProbesReached
  /\ pc' = "drain"
  /\ UNCHANGED <<config, p, i, stats, snifferState, stopCalls, waits, sendLog,
                 yielded, passed, prefix_excl, prefix_incl, ret, exhausted>>

\* Line 115: the end of the loop body, back to line 66.
NextIteration ==
  /\ pc = "maxcheck"
  /\ ~MaxProbesReached
  /\ pc' = "loop"
  /\ UNCHANGED <<config, p, i, stats, snifferState, stopCalls, waits, sendLog,
                 yielded, passed, prefix_excl, prefix_incl, ret, exhausted>>

\* Lines 117-120: sleep sniffer_wait_time seconds.
Drain ==
  /\ pc = "drain"
  /\ pc' = "stop"
  /\ UNCHANGED <<config, p, i, stats, snifferState, stopCalls, waits, sendLog,
                 yielded, passed, prefix_excl, prefix_incl, ret, exhausted>>

\* Line 121.
SnifferStop ==
  /\ pc = "stop"
  /\ snifferState' = "stopped"
  /\ stopCalls' = stopCalls + 1
  /\ pc' = "return"
  /\ UNCHANGED <<config, p, i, stats, waits, sendLog, yielded, passed,
                 prefix_excl, prefix_incl, ret, exhausted>>

\* Lines 123-124.
Return ==
  /\ pc = "return"
  /\ ret' = <<stats>>
  /\ pc' = "done"
  /\ UNCHANGED <<config, p, i, stats, snifferState, stopCalls, waits, sendLog,
                 yielded, passed, prefix_excl, prefix_incl, exhausted>>

(***************************************************************************)
(* The detached stats_thread, prober.cpp:50-61.  The thread is created at  *)
(* line 55, after the Sender was constructed, and loops for ever: it has   *)
(* no exit.  Its lambda captures rl, stats and sniffer by reference.       *)
(***************************************************************************)
\* stats_thread exists: line 61 has been passed.
LoggerSpawned ==
  pc \in {"loop", "read", "filter", "for", "send", "maxcheck", "drain",
          "stop", "return", "done"}

\* Lines 56-59: the sleep of five seconds is over and log_stats() reads
\* rl, stats and sniffer.  Once probe() has returned the three objects are
\* destroyed and the references dangle.
LogStats ==
  /\ LoggerSpawned
  /\ logAccess' = IF pc = "done" THEN "dangling" ELSE "live"

(***************************************************************************)
(* Prober::probe(const Config&, std::istream&), prober.cpp:127-143: the    *)
(* iterator is a lambda over the lines of a CSV stream.                    *)
(***************************************************************************)
\* The decimal fields the input lines use, with their values.
Decimal ==
  [s \in {"1", "2", "3", "24000", "33434"} |->
     CASE s = "1" -> 1 [] s = "2" -> 2 [] s = "3" -> 3
       [] s = "24000" -> 24000 [] s = "33434" -> 33434]

\* Probe::from_csv on a line split at its commas
\* (dst_addr,src_port,dst_port,ttl,protocol): the probe, or ok = FALSE when
\* it throws.
FromCsv(line) ==
  IF /\ Len(line) = 5
     /\ line[1] \in Addrs
     /\ line[2] \in DOMAIN Decimal
     /\ line[3] \in DOMAIN Decimal
     /\ line[4] \in DOMAIN Decimal
     /\ Decimal[line[4]] \in 1..255
     /\ line[5] \in {"icmp", "icmp6", "udp"}
  THEN [ok |-> TRUE, ttl |-> Decimal[line[4]], dst_addr |-> line[1]]
  ELSE [ok |-> FALSE, ttl |-> 0, dst_addr |-> "::"]

\* Well-formed lines: one for each outcome of the filters of CsvConfigs.
GoodLines ==
  { <<"11.0.0.1", "24000", "33434", "1", "icmp">>,
    <<"11.0.0.1", "24000", "33434", "2", "icmp">>,
    <<"11.0.0.1", "24000", "33434", "3", "udp">>,
    <<"10.0.0.1", "24000", "33434", "2", "udp">>,
    <<"13.0.0.1", "24000", "33434", "2", "icmp">> }

\* Malformed lines: fields missing, a TTL that is no number, a protocol
\* that is none of icmp, icmp6, udp.
BadLines ==
  { <<"11.0.0.1", "24000", "33434">>,
    <<"11.0.0.1", "24000", "33434", "x", "icmp">>,
    <<"11.0.0.1", "24000", "33434", "2", "tcp">> }

\* The streams tried: every sequence of at most MaxLines lines.
Streams == UNION { [1..n -> GoodLines \cup BadLines] : n \in 0..MaxLines }

\* The configurations tried with a CSV stream: every filter, or none.
CsvConfigs ==
  { c \in Configs :
      /\ HasValue(c.filter_min_ttl) = HasValue(c.filter_max_ttl)
      /\ HasValue(c.filter_max_ttl) = HasValue(c.prefix_excl_file)
      /\ HasValue(c.prefix_excl_file) = HasValue(c.prefix_incl_file)
      /\ c.n_packets = 1
      /\ c.max_probes \in {None, Some(1)} }

\* Line 130: the lambda is called from line 66.
CsvIterCall ==
  /\ pc = "loop"
  /\ valid' = FALSE
  /\ pc' = "it_while"
  /\ UNCHANGED <<config, p, i, stats, snifferState, stopCalls, waits, sendLog,
                 yielded, passed, prefix_excl, prefix_incl, ret, exhausted>>
  /\ UNCHANGED <<input, is, warned, csvYielded>>

\* Lines 132-135: getline reads a line and from_csv returns a probe.
CsvLineParsed ==
  /\ pc = "it_while"
  /\ ~valid
  /\ is /= <<>>
  /\ FromCsv(Head(is)).ok
  /\ is' = Tail(is)
  /\ p' = [id |-> yielded + 1, ttl |-> FromCsv(Head(is)).ttl,
           dst_addr |-> FromCsv(Head(is)).dst_addr]
  /\ valid' = TRUE
  /\ yielded' = yielded + 1
  /\ csvYielded' = Append(csvYielded, p')
  /\ UNCHANGED <<config, pc, i, stats, snifferState, stopCalls, waits,
                 sendLog, passed, prefix_excl, prefix_incl, ret, exhausted>>
  /\ UNCHANGED <<input, warned>>

\* CsvLineMalformed with the exception ending the iteration.
CsvLineMalformed_ends ==
  /\ pc = "it_while"
  /\ ~valid
  /\ is /= <<>>
  /\ ~FromCsv(Head(is)).ok
  /\ is' = Tail(is)
  /\ warned' = warned + 1
  /\ pc' = "drain"
  /\ exhausted' = TRUE
  /\ UNCHANGED <<config, p, i, stats, snifferState, stopCalls, waits,
                 sendLog, yielded, passed, prefix_excl, prefix_incl, ret>>
  /\ UNCHANGED <<input, valid, csvYielded>>

\* Lines 132-138: getline reads a line and from_csv throws.
CsvLineMalformed ==
  /\ pc = "it_while"
  /\ ~valid
  /\ is /= <<>>
  /\ ~FromCsv(Head(is)).ok
  /\ is' = Tail(is)
  /\ warned' = warned + 1
  /\ UNCHANGED <<config, pc, p, i, stats, snifferState, stopCalls, waits,
                 sendLog, yielded, passed, prefix_excl, prefix_incl, ret, exhausted>>
  /\ UNCHANGED <<input, valid, csvYielded>>

\* Lines 132 and 140: the while condition is false, the lambda returns
\* valid.
CsvIterReturn ==
  /\ pc = "it_while"
  /\ valid \/ is = <<>>
  /\ pc' = IF valid THEN "read" ELSE "drain"
  /\ exhausted' = ~valid
  /\ UNCHANGED <<config, p, i, stats, snifferState, stopCalls, waits, sendLog,
                 yielded, passed, prefix_excl, prefix_incl, ret>>
  /\ UNCHANGED csvVars

(***************************************************************************)
(* Byte order.  The host is little-endian: a uint16_t read through a       *)
(* pointer into the buffer has the byte at the lower address as its low    *)
(* byte, and htons/ntohs swap the two bytes.                               *)
(***************************************************************************)
htons(v) == (v % 256) * 256 + (v \div 256)
ntohs(v) == htons(v)
\* The four bytes of htonl(v), in memory order.
htonl_bytes(v) ==
  <<(v \div 16777216) % 256, (v \div 65536) % 256, (v \div 256) % 256, v % 256>>

\* *reinterpret_cast<uint16_t*>(b + off): a load and a store of the host.
Load16(b, off) == b[off + 1] + 256 * b[off + 2]
Store16(b, off, v) ==
  [k \in 1..Len(b) |->
     IF k = off + 1 THEN v % 256 ELSE IF k = off + 2 THEN v \div 256 ELSE b[k]]
Store8(b, off, v) == [b EXCEPT ![off + 1] = v]
\* std::copy of the bytes src to b + off.
StoreBytes(b, off, src) ==
  [k \in 1..Len(b) |->
     IF k > off /\ k <= off + Len(src) THEN src[k - off] ELSE b[k]]

(***************************************************************************)
(* Checked::numeric_cast and Checked::hton (checked.hpp).  An integer is   *)
(* held as its object representation on the host: the sequence of its      *)
(* bytes, least significant first, as long as its type is wide.  A type is *)
(* named by its size in bytes: 1 uint8_t, 2 uint16_t, 4 uint32_t, 8 size_t.*)
(***************************************************************************)
\* The size bytes of the integer v.  Floor division gives a v below zero
\* the bytes of the unsigned value it wrapped from.
ToBytes(v, size) == [k \in 1..size |-> (v \div (256 ^ (k - 1))) % 256]
\* The value of at most three bytes, or of four the last of which is
\* below 128.
RECURSIVE ToInt(_)
ToInt(bytes) ==
  IF bytes = <<>> THEN 0 ELSE Head(bytes) + 256 * ToInt(Tail(bytes))
\* The low size bytes of v, zero-extended where v is narrower.
Resize(v, size) == [k \in 1..size |-> IF k <= Len(v) THEN v[k] ELSE 0]

\* numeric_cast with the check left out: a static_cast.
numeric_cast_truncating(size, v) ==
  [threw |-> FALSE, value |-> Resize(v, size)]

\* numeric_cast<T>(v), sizeof(T) = size: v in the type T, or
\* std::invalid_argument when T cannot hold it.
numeric_cast(size, v) ==
  IF \A k \in DOMAIN v : k > size => v[k] = 0
  THEN [threw |-> FALSE, value |-> Resize(v, size)]
  ELSE [threw |-> TRUE, value |-> <<>>]

\* hton<T>(v): the narrowing, then htons or htonl, which reverse the bytes
\* on this host.
hton(size, v) ==
  LET c == numeric_cast(size, v)
  IN  IF c.threw THEN c
      ELSE [threw |-> FALSE, value |-> [k \in 1..size |-> c.value[size + 1 - k]]]

\* numeric_cast<uint16_t> and hton<uint16_t> of a size_t or uint32_t the
\* builder holds as a number, the result a number as well.
numeric_cast16(v) ==
  LET c == numeric_cast(2, ToBytes(v, 4))
  IN  [threw |-> c.threw, value |-> IF c.threw THEN 0 ELSE ToInt(c.value)]
hton16(v) ==
  LET c == hton(2, ToBytes(v, 4))
  IN  [threw |-> c.threw, value |-> IF c.threw THEN 0 ELSE ToInt(c.value)]

(***************************************************************************)
(* netutils/checksum.h: the one's-complement sums.                         *)
(***************************************************************************)
RECURSIVE ip_checksum_add(_, _, _, _)
\* Adds the len bytes of b from offset off on to current, as 16-bit words
\* of the host and a last odd byte.  The sum is a uint32_t, which the words
\* of a packet of at most 65535 bytes cannot overflow.
ip_checksum_add(current, b, off, len) ==
  IF len > 1
  THEN ip_checksum_add(current + Load16(b, off), b, off + 2, len - 2)
  ELSE IF len = 1 THEN current + b[off + 1]
  ELSE current

RECURSIVE ip_checksum_fold(_)
ip_checksum_fold(temp_sum) ==
  IF temp_sum > 65535
  THEN ip_checksum_fold((temp_sum \div 65536) + (temp_sum % 65536))
  ELSE temp_sum

\* ~fold, as a uint16_t.
ip_checksum_finish(temp_sum) == 65535 - ip_checksum_fold(temp_sum)

ip_checksum(b, off, len) == ip_checksum_finish(ip_checksum_add(0, b, off, len))

\* The IPv4 pseudo header: source, destination, protocol and length, the
\* protocol read from the header at b.
ipv4_pseudo_header_checksum(b, len) ==
  LET s1 == ip_checksum_add(0, b, 12, 4)
      s2 == ip_checksum_add(s1, b, 16, 4)
      s3 == s2 + htons(b[10])
  IN  s3 + htons(len)

\* The IPv6 pseudo header: source, destination, 32-bit length and next
\* header.
ipv6_pseudo_header_checksum(b, len, protocol) ==
  LET s1 == ip_checksum_add(0, b, 8, 16)
      s2 == ip_checksum_add(s1, b, 24, 16)
      s3 == ip_checksum_add(s2, htonl_bytes(len), 0, 4)
  IN  ip_checksum_add(s3, htonl_bytes(protocol), 0, 4)

(***************************************************************************)
(* Packet (caracal/packet.hpp): the view of the buffer.                    *)
(***************************************************************************)
IPPROTO_IP == 0
IPPROTO_ICMP == 1
IPPROTO_UDP == 17
IPPROTO_IPV6 == 41
IPPROTO_ICMPV6 == 58
\* caracal/constants.hpp
PAYLOAD_TWEAK_BYTES == 2
ICMP_HEADER_SIZE == 8

\* sizeof(ip) and sizeof(ip6_hdr).
l3_header_size(pkt) == IF pkt.l3_protocol = IPPROTO_IP THEN 20 ELSE 40
\* ICMP echo, ICMPv6 echo and UDP headers are all 8 bytes long.
l4_header_size(pkt) == 8
payload_size(pkt) == pkt.payload_size
l4_size(pkt) == l4_header_size(pkt) + payload_size(pkt)
l3_size(pkt) == l3_header_size(pkt) + l4_size(pkt)
\* Offsets of packet.l4() and packet.payload() from packet.l3().
l4(pkt) == l3_header_size(pkt)
payload(pkt) == l3_header_size(pkt) + l4_header_size(pkt)

(***************************************************************************)
(* caracal::Builder, builder.cpp.  A builder function maps the buffer to   *)
(* [buf, threw]: the buffer as it leaves it, and "" or the exception.      *)
(***************************************************************************)
Returned(b) == [buf |-> b, threw |-> ""]
Threw(b) == [buf |-> b, threw |-> "invalid_argument"]

\* assert_payload_size with <= 1 byte let through: an off-by-one bound.
assert_payload_size_off_by_one(pkt, min_size) == payload_size(pkt) + 1 < min_size

\* builder.cpp:20-26: TRUE iff it throws.
assert_payload_size(pkt, min_size) == payload_size(pkt) < min_size

\* builder.cpp:28-45.
transport_checksum(pkt, b) ==
  LET len == numeric_cast16(l4_size(pkt))
      pseudo == IF pkt.l3_protocol = IPPROTO_IP
                THEN ipv4_pseudo_header_checksum(b, len.value)
                ELSE ipv6_pseudo_header_checksum(b, len.value, pkt.l4_protocol)
      current == ip_checksum_add(pseudo, b, l4(pkt), l4_size(pkt))
  IN  IF len.threw THEN len
      ELSE [threw |-> FALSE, value |-> ip_checksum_finish(current)]

\* tweak_payload with the target taken in host order: ntohs forgotten.
tweak_payload_no_ntohs(original_checksum, target_checksum) ==
  LET original_le == 65535 - ntohs(original_checksum)
      target_le == 65535 - target_checksum
      adjusted == IF target_le < original_le THEN target_le + 65535 ELSE target_le
  IN  hton16(adjusted - original_le)

\* builder.cpp:47-55.
tweak_payload(original_checksum, target_checksum) ==
  LET original_le == 65535 - ntohs(original_checksum)
      target_le == 65535 - ntohs(target_checksum)
      adjusted == IF target_le < original_le THEN target_le + 65535 ELSE target_le
  IN  hton16(adjusted - original_le)

\* IP::init for IPv4 with ip_id = ttl, the hton left out.
IP_init_v4_host_order_id(pkt, b, protocol, src_addr, dst_addr, ttl) ==
  LET b1 == Store8(b, 0, 4 * 16 + 5)
      b2 == Store8(b1, 1, 0)
      b3 == Store8(b2, 9, protocol)
      b4 == StoreBytes(b3, 12, src_addr)
      b5 == StoreBytes(b4, 16, dst_addr)
      b6 == Store8(b5, 8, ttl)
      b7 == Store16(b6, 4, ttl)
      len == hton16(l3_size(pkt))
      b8 == Store16(b7, 2, len.value)
      b9 == Store16(b8, 10, 0)
  IN  IF len.threw THEN Threw(b7)
      ELSE Returned(Store16(b9, 10, ip_checksum(b9, 0, 20)))

\* builder.cpp:83-97, IP::init for IPv4.
IP_init_v4(pkt, b, protocol, src_addr, dst_addr, ttl) ==
  LET b1 == Store8(b, 0, 4 * 16 + 5)
      b2 == Store8(b1, 1, 0)
      b3 == Store8(b2, 9, protocol)
      b4 == StoreBytes(b3, 12, src_addr)
      b5 == StoreBytes(b4, 16, dst_addr)
      b6 == Store8(b5, 8, ttl)
      id == hton16(ttl)
      b7 == Store16(b6, 4, id.value)
      len == hton16(l3_size(pkt))
      b8 == Store16(b7, 2, len.value)
      b9 == Store16(b8, 10, 0)
  IN  IF id.threw THEN Threw(b6)
      ELSE IF len.threw THEN Threw(b7)
      ELSE Returned(Store16(b9, 10, ip_checksum(b9, 0, 20)))

\* IP::init for IPv6 with ip6_plen = l3_size(), the IPv6 header counted in.
IP_init_v6_plen_l3(pkt, b, protocol, src_addr, dst_addr, ttl) ==
  LET b1 == StoreBytes(b, 0, htonl_bytes(1610612736))
      b2 == Store8(b1, 6, protocol)
      b3 == StoreBytes(b2, 8, src_addr)
      b4 == StoreBytes(b3, 24, dst_addr)
      b5 == Store8(b4, 7, ttl)
      plen == hton16(l3_size(pkt))
  IN  IF plen.threw THEN Threw(b5)
      ELSE Returned(Store16(b5, 4, plen.value))

\* builder.cpp:99-113, IP::init for IPv6.
IP_init_v6(pkt, b, protocol, src_addr, dst_addr, ttl) ==
  LET b1 == StoreBytes(b, 0, htonl_bytes(1610612736))
      b2 == Store8(b1, 6, protocol)
      b3 == StoreBytes(b2, 8, src_addr)
      b4 == StoreBytes(b3, 24, dst_addr)
      b5 == Store8(b4, 7, ttl)
      plen == hton16(l4_size(pkt))
  IN  IF plen.threw THEN Threw(b5)
      ELSE Returned(Store16(b5, 4, plen.value))

\* EchoHeader with the id stored in host order, the htons left out.
EchoHeader_host_order_id(pkt, b, type, target_checksum, target_seq) ==
  LET b1 == Store8(b, l4(pkt), type)
      b2 == Store8(b1, l4(pkt) + 1, 0)
      b3 == Store16(b2, l4(pkt) + 2, 0)
      b4 == Store16(b3, l4(pkt) + 4, target_checksum)
  IN  Store16(b4, l4(pkt) + 6, htons(target_seq))

\* Lines 123-128 and 145-150: the echo request header with a zero checksum.
EchoHeader(pkt, b, type, target_checksum, target_seq) ==
  LET b1 == Store8(b, l4(pkt), type)
      b2 == Store8(b1, l4(pkt) + 1, 0)
      b3 == Store16(b2, l4(pkt) + 2, 0)
      b4 == Store16(b3, l4(pkt) + 4, htons(target_checksum))
  IN  Store16(b4, l4(pkt) + 6, htons(target_seq))

\* Lines 132-134, 155-157 and 175-177: the tweak word at the start of the
\* payload, then the target in the checksum field of the L4 header, which
\* is at offset cksum of the header.
WriteTweak(pkt, b, cksum, original_checksum, target_checksum) ==
  LET tweak == tweak_payload(original_checksum, htons(target_checksum))
      b1 == Store16(b, payload(pkt), tweak.value)
  IN  IF tweak.threw THEN Threw(b)
      ELSE Returned(Store16(b1, l4(pkt) + cksum, htons(target_checksum)))

\* builder.cpp:119-135.
ICMP_init(pkt, b, target_checksum, target_seq) ==
  LET b1 == EchoHeader(pkt, b, 8, target_checksum, target_seq)
      original_checksum == ip_checksum(b1, l4(pkt), ICMP_HEADER_SIZE)
  IN  IF assert_payload_size(pkt, PAYLOAD_TWEAK_BYTES) THEN Threw(b)
      ELSE WriteTweak(pkt, b1, 2, original_checksum, target_checksum)

\* builder.cpp:141-158.
ICMPv6_init(pkt, b, target_checksum, target_seq) ==
  LET b1 == EchoHeader(pkt, b, 128, target_checksum, target_seq)
      original_checksum == transport_checksum(pkt, b1)
  IN  IF assert_payload_size(pkt, PAYLOAD_TWEAK_BYTES) THEN Threw(b)
      ELSE IF original_checksum.threw THEN Threw(b1)
      ELSE WriteTweak(pkt, b1, 2, original_checksum.value, target_checksum)

\* builder.cpp:164-168.
UDP_set_checksum(pkt, b) ==
  LET b1 == Store16(b, l4(pkt) + 6, 0)
      sum == transport_checksum(pkt, b1)
  IN  IF sum.threw THEN Threw(b1)
      ELSE Returned(Store16(b1, l4(pkt) + 6, sum.value))

\* UDP::set_checksum with a target, uh_sum = 0 left out: the checksum field
\* as it was is summed.
UDP_set_checksum_target_stale_sum(pkt, b, target_checksum) ==
  LET original_checksum == transport_checksum(pkt, b)
  IN  IF assert_payload_size(pkt, PAYLOAD_TWEAK_BYTES) THEN Threw(b)
      ELSE IF original_checksum.threw THEN Threw(b)
      ELSE WriteTweak(pkt, b, 6, original_checksum.value, target_checksum)

\* builder.cpp:170-178.
UDP_set_checksum_target(pkt, b, target_checksum) ==
  LET b1 == Store16(b, l4(pkt) + 6, 0)
      original_checksum == transport_checksum(pkt, b1)
  IN  IF assert_payload_size(pkt, PAYLOAD_TWEAK_BYTES) THEN Threw(b)
      ELSE IF original_checksum.threw THEN Threw(b1)
      ELSE WriteTweak(pkt, b1, 6, original_checksum.value, target_checksum)

\* builder.cpp:180-183.
UDP_set_length(pkt, b) ==
  LET len == hton16(l4_size(pkt))
  IN  IF len.threw THEN Threw(b)
      ELSE Returned(Store16(b, l4(pkt) + 4, len.value))

\* builder.cpp:185-190.
UDP_set_ports(pkt, b, src_port, dst_port) ==
  Returned(Store16(Store16(b, l4(pkt), htons(src_port)),
                   l4(pkt) + 2, htons(dst_port)))

(***************************************************************************)
(* The inputs of the builder.                                              *)
(***************************************************************************)
\* The (L3, L4) pairs the sender builds.
PacketKinds ==
  { <<IPPROTO_IP, IPPROTO_ICMP>>, <<IPPROTO_IP, IPPROTO_UDP>>,
    <<IPPROTO_IPV6, IPPROTO_ICMPV6>>, <<IPPROTO_IPV6, IPPROTO_UDP>> }
\* Payload bytes tried, and the byte the headers hold before the builder
\* runs.
PayloadBytes == {0, 255}
HeaderFill == {0, 255}
Payloads == UNION { [1..n -> PayloadBytes] : n \in 0..MaxPayload }
\* Target checksums (flow ids) and sequence numbers tried.
Targets == {0, 4660, 65535}
Seqs == {5}
BuilderTTLs == {5, 255}
\* 192.168.0.1 and 1.2.3.4.
Src4 == <<192, 168, 0, 1>>
Dst4 == {<<1, 2, 3, 4>>}
\* 2001:db8::2 and 2001:db8::1.
Src6 == <<32, 1, 13, 184, 0, 0, 0, 0, 0, 0, 0, 0, 0, 0, 0, 2>>
Dst6 == {<<32, 1, 13, 184, 0, 0, 0, 0, 0, 0, 0, 0, 0, 0, 0, 1>>}

\* A call of a builder function; an argument the function does not take
\* is -1.
Call(fn, ttl, target, seq) == [fn |-> fn, ttl |-> ttl, target |-> target, seq |-> seq]
ChecksumFns == {"ICMP::init", "ICMPv6::init", "UDP::set_checksum",
                "UDP::set_checksum(target)"}
Called(fn) == \E k \in 1..Len(bcalls) : bcalls[k].fn = fn
NumChecksumCalls == Cardinality({k \in 1..Len(bcalls) : bcalls[k].fn \in ChecksumFns})

\* The builder function returned or threw r; the exception reaches the
\* caller, who calls nothing more on the packet.
Apply(r, call) ==
  /\ buf' = r.buf
  /\ bthrew' = r.threw
  /\ prevBuf' = buf
  /\ bcalls' = Append(bcalls, call)
  /\ UNCHANGED packet

\* The sender writes the IP header first, then the L4 header
\* (ports and length for UDP), then the checksum.
CallIPInit ==
  /\ bthrew = ""
  /\ bcalls = <<>>
  /\ \E ttl \in BuilderTTLs :
       \/ /\ packet.l3_protocol = IPPROTO_IP
          /\ \E dst \in Dst4 :
               Apply(IP_init_v4(packet, buf, packet.l4_protocol, Src4, dst, ttl),
                     Call("IP::init", ttl, -1, -1))
       \/ /\ packet.l3_protocol = IPPROTO_IPV6
          /\ \E dst \in Dst6 :
               Apply(IP_init_v6(packet, buf, packet.l4_protocol, Src6, dst, ttl),
                     Call("IP::init", ttl, -1, -1))

CallICMPInit ==
  /\ bthrew = ""
  /\ Called("IP::init")
  /\ packet.l4_protocol = IPPROTO_ICMP
  /\ NumChecksumCalls < MaxTweaks
  /\ \E target \in Targets, seq \in Seqs :
       Apply(ICMP_init(packet, buf, target, seq),
             Call("ICMP::init", -1, target, seq))

CallICMPv6Init ==
  /\ bthrew = ""
  /\ Called("IP::init")
  /\ packet.l4_protocol = IPPROTO_ICMPV6
  /\ NumChecksumCalls < MaxTweaks
  /\ \E target \in Targets, seq \in Seqs :
       Apply(ICMPv6_init(packet, buf, target, seq),
             Call("ICMPv6::init", -1, target, seq))

CallUDPSetPorts ==
  /\ bthrew = ""
  /\ Called("IP::init")
  /\ packet.l4_protocol = IPPROTO_UDP
  /\ NumChecksumCalls = 0
  /\ ~Called("UDP::set_ports")
  /\ ~Called("UDP::set_length")
  /\ Apply(UDP_set_ports(packet, buf, 24000, 33434),
           Call("UDP::set_ports", -1, -1, -1))

CallUDPSetLength ==
  /\ bthrew = ""
  /\ Called("IP::init")
  /\ packet.l4_protocol = IPPROTO_UDP
  /\ NumChecksumCalls = 0
  /\ ~Called("UDP::set_length")
  /\ Apply(UDP_set_length(packet, buf), Call("UDP::set_length", -1, -1, -1))

CallUDPSetChecksum ==
  /\ bthrew = ""
  /\ Called("IP::init")
  /\ packet.l4_protocol = IPPROTO_UDP
  /\ NumChecksumCalls < MaxTweaks
  /\ Apply(UDP_set_checksum(packet, buf), Call("UDP::set_checksum", -1, -1, -1))

CallUDPSetChecksumTarget ==
  /\ bthrew = ""
  /\ Called("IP::init")
  /\ packet.l4_protocol = IPPROTO_UDP
  /\ NumChecksumCalls < MaxTweaks
  /\ \E target \in Targets :
       Apply(UDP_set_checksum_target(packet, buf, target),
             Call("UDP::set_checksum(target)", -1, target, -1))

(***************************************************************************)
(* dminer::Reader::read (reader.cpp).                                      *)
(***************************************************************************)
\* The frames tried: a Time Exceeded from a hop, a Destination Unreachable
\* and an Echo Reply from the destination, a Time Exceeded that quotes a
\* probe whose flow ID does not match, a UDP datagram, and bytes that are
\* no packet.
Frames ==
  { [outer |-> "time_exceeded", src_ip |-> "9.9.9.9",
     inner_dst_ip |-> "1.2.3.4", consistent |-> TRUE],
    [outer |-> "dest_unreachable", src_ip |-> "1.2.3.4",
     inner_dst_ip |-> "1.2.3.4", consistent |-> TRUE],
    [outer |-> "echo_reply", src_ip |-> "5.6.7.8",
     inner_dst_ip |-> "", consistent |-> TRUE],
    [outer |-> "time_exceeded", src_ip |-> "9.9.9.9",
     inner_dst_ip |-> "1.2.3.4", consistent |-> FALSE],
    [outer |-> "udp", src_ip |-> "8.8.8.8",
     inner_dst_ip |-> "", consistent |-> TRUE],
    [outer |-> "undecodable", src_ip |-> "",
     inner_dst_ip |-> "", consistent |-> FALSE] }

\* The capture files tried: every sequence of at most MaxFrames frames.
Captures == UNION { [1..n -> Frames] : n \in 0..MaxFrames }

\* Parser::parse: the reply of a frame, or nothing.  An Echo Reply comes
\* from the probe's destination itself.
Parse(frame) ==
  IF frame.outer \in {"time_exceeded", "dest_unreachable", "echo_reply"}
       /\ frame.consistent
  THEN Some([src_ip |-> frame.src_ip,
             inner_dst_ip |-> IF frame.outer = "echo_reply"
                              THEN frame.src_ip ELSE frame.inner_dst_ip])
  ELSE None

\* Reply::to_csv(include_rtt): the fields of the reply, the RTT last.
to_csv(reply, include_rtt) ==
  IF include_rtt THEN <<reply.src_ip, reply.inner_dst_ip, "rtt">>
  ELSE <<reply.src_ip, reply.inner_dst_ip>>

\* Line 37: fmt::format("{},{},{}\n", reply->to_csv(include_rtt), round, "1").
CsvLine(reply) == to_csv(reply, rargs.include_rtt) \o <<rargs.round, "1">>

\* Lines 28-30.
LogEveryMillion ==
  infoLogs' = IF statistics.received_count % 1000000 = 0
              THEN infoLogs + 1 ELSE infoLogs

\* The handler with received_count++ moved into the if of line 32.
HandlerNoReply_uncounted ==
  /\ rpc = "sniff_loop"
  /\ capture /= <<>>
  /\ ~HasValue(Parse(Head(capture)))
  /\ capture' = Tail(capture)
  /\ handled' = Append(handled, Head(capture))
  /\ LogEveryMillion
  /\ UNCHANGED <<rargs, statistics, output_csv, rpc, rret>>

\* Lines 24-43, the handler on a frame that parse returns no reply for.
HandlerNoReply ==
  /\ rpc = "sniff_loop"
  /\ capture /= <<>>
  /\ ~HasValue(Parse(Head(capture)))
  /\ capture' = Tail(capture)
  /\ handled' = Append(handled, Head(capture))
  /\ LogEveryMillion
  /\ statistics' = [statistics EXCEPT !.received_count = @ + 1]
  /\ UNCHANGED <<rargs, output_csv, rpc, rret>>

\* HandlerReply with the test of line 34 left out: every source is taken
\* for a probe destination.
HandlerReply_path_always ==
  /\ rpc = "sniff_loop"
  /\ capture /= <<>>
  /\ HasValue(Parse(Head(capture)))
  /\ LET reply == Value(Parse(Head(capture)))
     IN  /\ statistics' =
               [received_count |-> statistics.received_count + 1,
                icmp_messages_all |->
                  statistics.icmp_messages_all \cup {reply.src_ip},
                icmp_messages_path |->
                  statistics.icmp_messages_path \cup {reply.src_ip}]
         /\ output_csv' = Append(output_csv, CsvLine(reply))
  /\ capture' = Tail(capture)
  /\ handled' = Append(handled, Head(capture))
  /\ LogEveryMillion
  /\ UNCHANGED <<rargs, rpc, rret>>

\* Lines 24-43, the handler on a frame that parse returns a reply for.
HandlerReply ==
  /\ rpc = "sniff_loop"
  /\ capture /= <<>>
  /\ HasValue(Parse(Head(capture)))
  /\ LET reply == Value(Parse(Head(capture)))
     IN  /\ statistics' =
               [received_count |-> statistics.received_count + 1,
                icmp_messages_all |->
                  statistics.icmp_messages_all \cup {reply.src_ip},
                icmp_messages_path |->
                  IF reply.src_ip = reply.inner_dst_ip
                  THEN statistics.icmp_messages_path \cup {reply.src_ip}
                  ELSE statistics.icmp_messages_path]
         /\ output_csv' = Append(output_csv, CsvLine(reply))
  /\ capture' = Tail(capture)
  /\ handled' = Append(handled, Head(capture))
  /\ LogEveryMillion
  /\ UNCHANGED <<rargs, rpc, rret>>

\* Lines 45-47: the file is at its end, sniff_loop returns.
SniffLoopEnd ==
  /\ rpc = "sniff_loop"
  /\ capture = <<>>
  /\ infoLogs' = infoLogs + 1
  /\ rret' = <<statistics>>
  /\ rpc' = "done"
  /\ UNCHANGED <<rargs, capture, handled, statistics, output_csv>>

(***************************************************************************)
(* Calls of Checked::numeric_cast and Checked::hton.                       *)
(***************************************************************************)
\* The bytes the arguments are made of.
CheckedBytes == {0, 254, 255}
\* The arguments tried: every uint8_t, uint16_t and uint32_t of these
\* bytes, and the 64-bit integers with bit 32 clear or set above them.
CheckedArgs ==
  UNION { [1..w -> CheckedBytes] : w \in {1, 2, 4} }
    \cup { a \o <<h, 0, 0, 0>> : a \in [1..4 -> CheckedBytes], h \in {0, 1} }
\* sizeof(T) for uint8_t, uint16_t, uint32_t.
CheckedSizes == {1, 2, 4}

CallNumericCast ==
  /\ cfn = ""
  /\ \E size \in CheckedSizes, v \in CheckedArgs :
       /\ cfn' = "numeric_cast"
       /\ csize' = size
       /\ carg' = v
       /\ cres' = numeric_cast(size, v)

\* htons and htonl exist for uint16_t and uint32_t.
CallHton ==
  /\ cfn = ""
  /\ \E size \in {2, 4}, v \in CheckedArgs :
       /\ cfn' = "hton"
       /\ csize' = size
       /\ carg' = v
       /\ cres' = hton(size, v)

(***************************************************************************)
(* The specifications.                                                     *)
(***************************************************************************)
\* The state when probe() is entered with configuration c.
ProberStart(c) ==
  /\ config = c
  /\ pc = "start"
  /\ p = DefaultProbe
  /\ i = 0
  /\ stats = ZeroStats
  /\ snifferState = "idle"
  /\ stopCalls = 0
  /\ waits = 0
  /\ sendLog = <<>>
  /\ yielded = 0
  /\ passed = <<>>
  /\ exhausted = FALSE
  /\ prefix_excl = {}
  /\ prefix_incl = {}
  /\ ret = <<>>

\* The CSV lambda is not in use.
CsvIdle ==
  /\ input = <<>>
  /\ is = <<>>
  /\ valid = FALSE
  /\ warned = 0
  /\ csvYielded = <<>>

\* No packet is being built.
BuilderIdle ==
  /\ packet = [l3_protocol |-> IPPROTO_IP, l4_protocol |-> IPPROTO_ICMP,
               payload_size |-> 0]
  /\ buf = <<>>
  /\ prevBuf = <<>>
  /\ bcalls = <<>>
  /\ bthrew = ""

\* Statistics::Sniffer statistics{}.
ZeroSniffer ==
  [received_count |-> 0, icmp_messages_all |-> {}, icmp_messages_path |-> {}]

\* read() has not been called.
ReaderIdle ==
  /\ rargs = [round |-> "", include_rtt |-> FALSE]
  /\ capture = <<>>
  /\ handled = <<>>
  /\ statistics = ZeroSniffer
  /\ output_csv = <<>>
  /\ infoLogs = 0
  /\ rpc = "idle"
  /\ rret = <<>>

\* No call of Checked has been made.
CheckedIdle ==
  /\ cfn = ""
  /\ csize = 0
  /\ carg = <<>>
  /\ cres = [threw |-> FALSE, value |-> <<>>]

\* stats_thread has not called log_stats().
LoggerIdle == logAccess = "none"

\* The prober is not running.
ProberIdle ==
  /\ config = [filter_min_ttl |-> None, filter_max_ttl |-> None,
               prefix_excl_file |-> None, prefix_incl_file |-> None,
               n_packets |-> 1, max_probes |-> None]
  /\ pc = "idle"
  /\ p = DefaultProbe
  /\ i = 0
  /\ stats = ZeroStats
  /\ snifferState = "idle"
  /\ stopCalls = 0
  /\ waits = 0
  /\ sendLog = <<>>
  /\ yielded = 0
  /\ passed = <<>>
  /\ exhausted = FALSE
  /\ prefix_excl = {}
  /\ prefix_incl = {}
  /\ ret = <<>>

InitProber ==
  /\ \E c \in Configs : ProberStart(c)
  /\ CsvIdle
  /\ BuilderIdle
  /\ ReaderIdle
  /\ CheckedIdle
  /\ LoggerIdle

NextProber ==
  \/ IterYield /\ UNCHANGED <<csvVars, builderVars, readerVars, checkedVars, loggerVars>>
  \/ IterEnd /\ UNCHANGED <<csvVars, builderVars, readerVars, checkedVars, loggerVars>>
  \/ Setup /\ UNCHANGED <<csvVars, builderVars, readerVars, checkedVars, loggerVars>>
  \/ SenderCtor /\ UNCHANGED <<csvVars, builderVars, readerVars, checkedVars, loggerVars>>
  \/ SenderCtorThrows /\ UNCHANGED <<csvVars, builderVars, readerVars, checkedVars, loggerVars>>
  \/ ReadInc /\ UNCHANGED <<csvVars, builderVars, readerVars, checkedVars, loggerVars>>
  \/ FilterLoTtl /\ UNCHANGED <<csvVars, builderVars, readerVars, checkedVars, loggerVars>>
  \/ FilterHiTtl /\ UNCHANGED <<csvVars, builderVars, readerVars, checkedVars, loggerVars>>
  \/ FilterPrefixExcl /\ UNCHANGED <<csvVars, builderVars, readerVars, checkedVars, loggerVars>>
  \/ FilterPrefixNotIncl /\ UNCHANGED <<csvVars, builderVars, readerVars, checkedVars, loggerVars>>
  \/ EnterSendLoop /\ UNCHANGED <<csvVars, builderVars, readerVars, checkedVars, loggerVars>>
  \/ ForTest /\ UNCHANGED <<csvVars, builderVars, readerVars, checkedVars, loggerVars>>
  \/ SendOk /\ UNCHANGED <<csvVars, builderVars, readerVars, checkedVars, loggerVars>>
  \/ SendFail /\ UNCHANGED <<csvVars, builderVars, readerVars, checkedVars, loggerVars>>
  \/ MaxProbesBreak /\ UNCHANGED <<csvVars, builderVars, readerVars, checkedVars, loggerVars>>
  \/ NextIteration /\ UNCHANGED <<csvVars, builderVars, readerVars, checkedVars, loggerVars>>
  \/ Drain /\ UNCHANGED <<csvVars, builderVars, readerVars, checkedVars, loggerVars>>
  \/ SnifferStop /\ UNCHANGED <<csvVars, builderVars, readerVars, checkedVars, loggerVars>>
  \/ Return /\ UNCHANGED <<csvVars, builderVars, readerVars, checkedVars, loggerVars>>

\* probe() driven by an arbitrary iterator.
SpecProber == InitProber /\ [][NextProber]_vars

InitCsv ==
  /\ \E c \in CsvConfigs : ProberStart(c)
  /\ input \in Streams
  /\ is = input
  /\ valid = FALSE
  /\ warned = 0
  /\ csvYielded = <<>>
  /\ BuilderIdle
  /\ ReaderIdle
  /\ CheckedIdle
  /\ LoggerIdle

NextCsv ==
  \/ CsvIterCall /\ UNCHANGED <<builderVars, readerVars, checkedVars, loggerVars>>
  \/ CsvLineParsed /\ UNCHANGED <<builderVars, readerVars, checkedVars, loggerVars>>
  \/ CsvLineMalformed /\ UNCHANGED <<builderVars, readerVars, checkedVars, loggerVars>>
  \/ CsvIterReturn /\ UNCHANGED <<builderVars, readerVars, checkedVars, loggerVars>>
  \/ Setup /\ UNCHANGED <<csvVars, builderVars, readerVars, checkedVars, loggerVars>>
  \/ SenderCtor /\ UNCHANGED <<csvVars, builderVars, readerVars, checkedVars, loggerVars>>
  \/ SenderCtorThrows /\ UNCHANGED <<csvVars, builderVars, readerVars, checkedVars, loggerVars>>
  \/ ReadInc /\ UNCHANGED <<csvVars, builderVars, readerVars, checkedVars, loggerVars>>
  \/ FilterLoTtl /\ UNCHANGED <<csvVars, builderVars, readerVars, checkedVars, loggerVars>>
  \/ FilterHiTtl /\ UNCHANGED <<csvVars, builderVars, readerVars, checkedVars, loggerVars>>
  \/ FilterPrefixExcl /\ UNCHANGED <<csvVars, builderVars, readerVars, checkedVars, loggerVars>>
  \/ FilterPrefixNotIncl /\ UNCHANGED <<csvVars, builderVars, readerVars, checkedVars, loggerVars>>
  \/ EnterSendLoop /\ UNCHANGED <<csvVars, builderVars, readerVars, checkedVars, loggerVars>>
  \/ ForTest /\ UNCHANGED <<csvVars, builderVars, readerVars, checkedVars, loggerVars>>
  \/ SendOk /\ UNCHANGED <<csvVars, builderVars, readerVars, checkedVars, loggerVars>>
  \/ SendFail /\ UNCHANGED <<csvVars, builderVars, readerVars, checkedVars, loggerVars>>
  \/ MaxProbesBreak /\ UNCHANGED <<csvVars, builderVars, readerVars, checkedVars, loggerVars>>
  \/ NextIteration /\ UNCHANGED <<csvVars, builderVars, readerVars, checkedVars, loggerVars>>
  \/ Drain /\ UNCHANGED <<csvVars, builderVars, readerVars, checkedVars, loggerVars>>
  \/ SnifferStop /\ UNCHANGED <<csvVars, builderVars, readerVars, checkedVars, loggerVars>>
  \/ Return /\ UNCHANGED <<csvVars, builderVars, readerVars, checkedVars, loggerVars>>

\* probe() driven by the lines of a CSV stream.
SpecCsv == InitCsv /\ [][NextCsv]_vars

\* A packet of each kind, its headers filled with one byte and its payload
\* chosen freely.
InitBuilder ==
  /\ \E kind \in PacketKinds, data \in Payloads, fill \in HeaderFill :
       /\ packet = [l3_protocol |-> kind[1], l4_protocol |-> kind[2],
                    payload_size |-> Len(data)]
       /\ buf = [k \in 1..(l3_header_size(packet) + l4_header_size(packet)) |-> fill]
                  \o data
  /\ prevBuf = buf
  /\ bcalls = <<>>
  /\ bthrew = ""
  /\ ProberIdle
  /\ CsvIdle
  /\ ReaderIdle
  /\ CheckedIdle
  /\ LoggerIdle

NextBuilder ==
  \/ CallIPInit /\ UNCHANGED <<proberVars, csvVars, readerVars, checkedVars, loggerVars>>
  \/ CallICMPInit /\ UNCHANGED <<proberVars, csvVars, readerVars, checkedVars, loggerVars>>
  \/ CallICMPv6Init /\ UNCHANGED <<proberVars, csvVars, readerVars, checkedVars, loggerVars>>
  \/ CallUDPSetPorts /\ UNCHANGED <<proberVars, csvVars, readerVars, checkedVars, loggerVars>>
  \/ CallUDPSetLength /\ UNCHANGED <<proberVars, csvVars, readerVars, checkedVars, loggerVars>>
  \/ CallUDPSetChecksum /\ UNCHANGED <<proberVars, csvVars, readerVars, checkedVars, loggerVars>>
  \/ CallUDPSetChecksumTarget /\ UNCHANGED <<proberVars, csvVars, readerVars, checkedVars, loggerVars>>

\* The builder functions applied to one packet.
SpecBuilder == InitBuilder /\ [][NextBuilder]_vars

\* Lines 20-22: read() on a capture file, the output file empty.
InitReader ==
  /\ rargs \in [round : {"1", "2"}, include_rtt : BOOLEAN]
  /\ capture \in Captures
  /\ handled = <<>>
  /\ statistics = ZeroSniffer
  /\ output_csv = <<>>
  /\ infoLogs = 0
  /\ rpc = "sniff_loop"
  /\ rret = <<>>
  /\ ProberIdle
  /\ CsvIdle
  /\ BuilderIdle
  /\ CheckedIdle
  /\ LoggerIdle

NextReader ==
  \/ HandlerReply /\ UNCHANGED <<proberVars, csvVars, builderVars, checkedVars, loggerVars>>
  \/ HandlerNoReply /\ UNCHANGED <<proberVars, csvVars, builderVars, checkedVars, loggerVars>>
  \/ SniffLoopEnd /\ UNCHANGED <<proberVars, csvVars, builderVars, checkedVars, loggerVars>>

\* read() over a capture file.
SpecReader == InitReader /\ [][NextReader]_vars

InitChecked ==
  /\ CheckedIdle
  /\ LoggerIdle
  /\ ProberIdle
  /\ CsvIdle
  /\ BuilderIdle
  /\ ReaderIdle

NextChecked ==
  \/ CallNumericCast /\ UNCHANGED <<proberVars, csvVars, builderVars, readerVars, loggerVars>>
  \/ CallHton /\ UNCHANGED <<proberVars, csvVars, builderVars, readerVars, loggerVars>>

\* One call of a Checked function.
SpecChecked == InitChecked /\ [][NextChecked]_vars

InitPacing ==
  /\ \E c \in PacingConfigs : ProberStart(c)
  /\ CsvIdle
  /\ BuilderIdle
  /\ ReaderIdle
  /\ CheckedIdle
  /\ LoggerIdle

\* probe() with more than batch_size sends.
SpecPacing == InitPacing /\ [][NextProber]_vars

\* The configurations tried with the logging thread.
LoggerConfigs ==
  { c \in Configs :
      /\ HasValue(c.filter_min_ttl) = HasValue(c.filter_max_ttl)
      /\ HasValue(c.filter_max_ttl) = HasValue(c.prefix_excl_file)
      /\ HasValue(c.prefix_excl_file) = HasValue(c.prefix_incl_file)
      /\ c.n_packets = 1
      /\ c.max_probes \in {None, Some(1)} }

InitLogger ==
  /\ \E c \in LoggerConfigs : ProberStart(c)
  /\ CsvIdle
  /\ BuilderIdle
  /\ ReaderIdle
  /\ CheckedIdle
  /\ LoggerIdle

NextLogger ==
  \/ NextProber
  \/ LogStats /\ UNCHANGED <<proberVars, csvVars, builderVars, readerVars,
                              checkedVars>>

\* probe() and its logging thread, interleaved.
SpecLogger == InitLogger /\ [][NextLogger]_vars

(***************************************************************************)
(* The claims.                                                             *)
(***************************************************************************)
\* The last builder function called.
LastCall == bcalls[Len(bcalls)]
TweakFns == {"ICMP::init", "ICMPv6::init", "UDP::set_checksum(target)"}
\* A function that forces the checksum to a target was the last one called.
Tweaked == bcalls /= <<>> /\ LastCall.fn \in TweakFns

\* The one's-complement sum of a byte string, read as big-endian 16-bit
\* words and padded with a zero byte (RFC 1071).
RECURSIVE WordSum(_)
WordSum(bytes) ==
  IF Len(bytes) = 0 THEN 0
  ELSE IF Len(bytes) = 1 THEN 256 * bytes[1]
  ELSE 256 * bytes[1] + bytes[2] + WordSum(SubSeq(bytes, 3, Len(bytes)))

RECURSIVE EndAround(_)
EndAround(sum) ==
  IF sum > 65535 THEN EndAround((sum % 65536) + (sum \div 65536)) ELSE sum

\* The pseudo header a receiver sums, from the IP header in the buffer.
PseudoHeader(pkt, b) ==
  IF pkt.l4_protocol = IPPROTO_ICMP THEN <<>>
  ELSE IF pkt.l3_protocol = IPPROTO_IP
  THEN SubSeq(b, 13, 20)
         \o <<0, b[10], l4_size(pkt) \div 256, l4_size(pkt) % 256>>
  ELSE SubSeq(b, 9, 40)
         \o <<0, 0, l4_size(pkt) \div 256, l4_size(pkt) % 256>>
         \o <<0, 0, 0, b[7]>>

\* Offset of the checksum field in the L4 header.
ChecksumOffset(pkt) == IF pkt.l4_protocol = IPPROTO_UDP THEN 6 ELSE 2

\* The L4 checksum of the packet in b, recomputed with the checksum field
\* zeroed, as the number the field holds on the wire.
Recomputed(pkt, b) ==
  LET l4bytes == SubSeq(b, l4(pkt) + 1, l4(pkt) + l4_size(pkt))
      zeroed == [k \in 1..Len(l4bytes) |->
                   IF k \in {ChecksumOffset(pkt) + 1, ChecksumOffset(pkt) + 2}
                   THEN 0 ELSE l4bytes[k]]
  IN  65535 - EndAround(WordSum(PseudoHeader(pkt, b) \o zeroed))

\* The payload bytes of b from offset from to offset to - 1 are all zero.
PayloadZero(pkt, b, from, to) ==
  \A k \in (payload(pkt) + from + 1)..(payload(pkt) + to) : b[k] = 0

\* What the tweak takes for granted of the payload it is given: UDP and
\* ICMPv6 sum the payload and then overwrite its first two bytes, ICMP sums
\* the header alone.
TweakablePayload(pkt, b) ==
  IF pkt.l4_protocol = IPPROTO_ICMP
  THEN PayloadZero(pkt, b, 2, payload_size(pkt))
  ELSE PayloadZero(pkt, b, 0, 2)

C8_MinimumPayload ==
  Tweaked =>
    /\ payload_size(packet) < 2 => (bthrew = "invalid_argument" /\ buf = prevBuf)
    /\ payload_size(packet) >= 2 => bthrew = ""

\* ICMPv6::init has thrown on a one-byte payload.
C8_Witness ==
  /\ Tweaked
  /\ LastCall.fn = "ICMPv6::init"
  /\ payload_size(packet) = 1
  /\ bthrew = "invalid_argument"
  /\ buf = prevBuf

\* The driver is at the top of an iteration of the probe loop (line 66).
AtLoopTop == pc = "loop"
\* The probe loop has been left (lines 117-125).
AfterLoop == pc \in {"drain", "stop", "return", "done"}

\* The probes the filters turned away, by the counters.
Filtered ==
  stats.filtered_lo_ttl + stats.filtered_hi_ttl
    + stats.filtered_prefix_excl + stats.filtered_prefix_not_incl

\* C2: at the top of every iteration of the probe loop and once the loop
\* is left, read is the sum of the four filter counters and of
\* (sent + failed) / n_packets.
C2_StatisticsConservation ==
  (AtLoopTop \/ AfterLoop)
    => stats.read = Filtered + ((stats.sent + stats.failed) \div config.n_packets)

\* The loop was left by the max_probes break after two copies of a probe
\* were sent, one of which failed, and after another probe was filtered.
C2_Witness ==
  /\ pc = "drain"
  /\ ~exhausted
  /\ config.n_packets = 2
  /\ stats.read = 2
  /\ Filtered = 1
  /\ stats.sent = 1
  /\ stats.failed = 1

\* What becomes of probe q under configuration c, by the order of the
\* tests of the claim: the name of the counter of the first filter that
\* matches, or "send".
Outcome(c, q) ==
  IF HasValue(c.filter_min_ttl) /\ q.ttl < Value(c.filter_min_ttl)
  THEN "filtered_lo_ttl"
  ELSE IF HasValue(c.filter_max_ttl) /\ q.ttl > Value(c.filter_max_ttl)
  THEN "filtered_hi_ttl"
  ELSE IF HasValue(c.prefix_excl_file)
          /\ \E prefix \in Value(c.prefix_excl_file) : q.dst_addr \in prefix
  THEN "filtered_prefix_excl"
  ELSE IF HasValue(c.prefix_incl_file)
          /\ \A prefix \in Value(c.prefix_incl_file) : q.dst_addr \notin prefix
  THEN "filtered_prefix_not_incl"
  ELSE "send"

\* C3: a probe the iterator yields is counted in read and then meets
\* exactly one of five outcomes, tested in the order lo TTL, hi TTL, deny
\* prefix, allow prefix, send: a filtered probe adds one to the counter of
\* its filter and to nothing else and causes no send; an unfiltered one
\* changes no counter before its send attempts.
C3_FilterPrecedence ==
  [][/\ yielded' = yielded + 1 => pc' = "read"
     /\ pc = "read" => (stats' = [stats EXCEPT !.read = @ + 1] /\ pc' = "filter")
     /\ pc = "filter" =>
          IF Outcome(config, p) = "send"
          THEN stats' = stats /\ sendLog' = sendLog /\ pc' = "for"
          ELSE /\ stats' = [stats EXCEPT ![Outcome(config, p)] = @ + 1]
               /\ sendLog' = sendLog
               /\ pc' = "loop"]_vars

\* Scenario S4, with a probe denied by prefix although its TTL passes and
\* its address is also outside the allow list.
C3_Witness ==
  /\ pc = "loop"
  /\ stats.read = 3
  /\ stats.filtered_lo_ttl = 1
  /\ stats.filtered_prefix_excl = 1
  /\ stats.sent = config.n_packets
  /\ p.dst_addr = "10.0.0.1"
  /\ HasValue(config.prefix_incl_file)

\* C4: every send attempt adds one to sent or to failed; a failed send
\* ends neither the copies of its probe nor the run, which goes on to
\* sniffer.stop() and returns the statistics.
C4_SendFailureHandling ==
  /\ stats.sent + stats.failed = Len(sendLog)
  /\ pc = "maxcheck" =>
       /\ Len(sendLog) >= config.n_packets
       /\ \A k \in 1..config.n_packets : sendLog[Len(sendLog) - k + 1] = p.id
  /\ (AtLoopTop \/ AfterLoop) => Len(sendLog) = config.n_packets * Len(passed)
  /\ stats.failed > 0 => pc /= "threw"
  /\ (stats.failed > 0 /\ pc /= "done") => ENABLED NextProber
  /\ pc = "done" => (snifferState = "stopped" /\ ret = <<stats>>)

\* A run in which the first copy of a probe failed and the second was
\* sent has returned.
C4_Witness ==
  /\ pc = "done"
  /\ config.n_packets = 2
  /\ stats.failed = 1
  /\ stats.sent = 3
  /\ ret = <<stats>>

\* C5: with max_probes set, the driver leaves the loop as soon as the
\* copies of a probe are done and sent >= max_probes, and from then on
\* the iterator is not called and nothing is read, filtered or sent;
\* otherwise the loop is left only when the iterator returns false.
C5_MaxProbesCutOff ==
  [][/\ pc = "maxcheck" =>
          pc' = IF HasValue(config.max_probes)
                   /\ stats.sent >= Value(config.max_probes)
                THEN "drain" ELSE "loop"
     /\ AfterLoop =>
          (AfterLoop' /\ UNCHANGED <<yielded, stats, sendLog, p, exhausted>>)
     /\ (~AfterLoop /\ AfterLoop') =>
          \/ exhausted' /\ pc = "loop"
          \/ /\ ~exhausted'
             /\ pc = "maxcheck"
             /\ HasValue(config.max_probes)
             /\ stats.sent >= Value(config.max_probes)]_vars

\* The break was taken with max_probes = 2 after three successful sends,
\* and the run has returned without the iterator being exhausted.
C5_Witness ==
  /\ pc = "done"
  /\ ~exhausted
  /\ config.max_probes = Some(2)
  /\ config.n_packets = 2
  /\ stats.sent = 3
  /\ stats.failed = 1

\* C6: the probes handed to sender.send are the unfiltered probes in the
\* order the iterator yielded them, each n_packets times in a row, whether
\* the sends succeed or fail.
C6_SendOrdering ==
  /\ \A k \in 1..Len(sendLog) :
       /\ (k - 1) \div config.n_packets + 1 <= Len(passed)
       /\ sendLog[k] = passed[(k - 1) \div config.n_packets + 1]
  /\ \A j, k \in 1..Len(passed) : j < k => passed[j] < passed[k]
  /\ (AtLoopTop \/ AfterLoop) => Len(sendLog) = config.n_packets * Len(passed)
  /\ pc \in {"for", "send"} =>
       Len(sendLog) = config.n_packets * (Len(passed) - 1) + i

\* Probes 1 and 3 were sent twice each, probe 2 was filtered, and one send
\* of each failed.
C6_Witness ==
  /\ pc = "loop"
  /\ sendLog = <<1, 1, 3, 3>>
  /\ stats.failed = 2
  /\ stats.read = 3


(***************************************************************************)
(* Claims about Reader::read.                                              *)
(***************************************************************************)
\* The frames among fs that parse to a reply, in order.
Replies(fs) == SelectSeq(fs, LAMBDA f : HasValue(Parse(f)))

\* C7: each handler invocation adds exactly one to received_count, reply or
\* not, and writes exactly one CSV line when parse returns a reply and none
\* otherwise: at every point received_count is the number of handler
\* invocations so far, and the CSV lines are those of the frames that
\* parsed to a reply, one each and in order.
C7_AtMostOnceCsv ==
  rpc /= "idle" =>
    /\ statistics.received_count = Len(handled)
    /\ Len(output_csv) = Len(Replies(handled))
    /\ \A k \in DOMAIN output_csv :
         output_csv[k] = CsvLine(Value(Parse(Replies(handled)[k])))
    /\ rpc = "done" => capture = <<>> /\ rret = <<statistics>>

\* read() has returned after three frames, two of which were replies.
C7_Witness ==
  /\ rpc = "done"
  /\ Len(handled) = 3
  /\ statistics.received_count = 3
  /\ Len(output_csv) = 2
  /\ ~HasValue(Parse(handled[2]))

(***************************************************************************)
(* Claims about the CSV-stream overload of probe().                        *)
(***************************************************************************)
\* The lines getline has read.
Consumed == SubSeq(input, 1, Len(input) - Len(is))
\* The lines among ls that from_csv accepts, in order.
WellFormed(ls) == SelectSeq(ls, LAMBDA l : FromCsv(l).ok)
\* A probe has been yielded that line 67 has not counted yet.
ReadPending == pc = "read" \/ (pc = "it_while" /\ valid)

\* C9: a line from_csv throws on is skipped: it is never yielded and it
\* does not end the run.  The probes yielded are those of the well-formed
\* lines consumed, in order; stats.read is their number; every malformed
\* line consumed was warned about; the iterator returns false only when the
\* stream is at its end, so the loop is only ever left early by max_probes.
C9_MalformedLinesSkipped ==
  pc /= "idle" =>
    /\ Len(csvYielded) = Len(WellFormed(Consumed))
    /\ \A k \in DOMAIN csvYielded :
         csvYielded[k] = [id |-> k,
                          ttl |-> FromCsv(WellFormed(Consumed)[k]).ttl,
                          dst_addr |-> FromCsv(WellFormed(Consumed)[k]).dst_addr]
    /\ stats.read = Len(WellFormed(Consumed)) - (IF ReadPending THEN 1 ELSE 0)
    /\ warned = Len(Consumed) - Len(WellFormed(Consumed))
    /\ exhausted => is = <<>>
    /\ (AfterLoop /\ ~exhausted) => MaxProbesReached
    /\ warned > 0 => pc /= "threw"

\* probe() has returned after a stream of three lines, the second of them
\* malformed.
C9_Witness ==
  /\ pc = "done"
  /\ exhausted
  /\ Len(input) = 3
  /\ FromCsv(input[1]).ok
  /\ ~FromCsv(input[2]).ok
  /\ FromCsv(input[3]).ok
  /\ warned = 1
  /\ stats.read = 2

(***************************************************************************)
(* Claims about Checked.                                                   *)
(***************************************************************************)
\* T, of csize bytes, can hold the argument: no byte above its width is
\* set.
Representable == \A k \in (csize + 1)..Len(carg) : carg[k] = 0

\* The cases of checked_test.cpp.
CheckedTests ==
  /\ numeric_cast(1, ToBytes(255, 1)) = [threw |-> FALSE, value |-> <<255>>]
  /\ numeric_cast(1, ToBytes(255, 2)) = [threw |-> FALSE, value |-> <<255>>]
  /\ numeric_cast(2, ToBytes(255, 1)) = [threw |-> FALSE, value |-> <<255, 0>>]
  /\ numeric_cast(2, ToBytes(65535, 2)) = [threw |-> FALSE, value |-> <<255, 255>>]
  /\ numeric_cast(1, ToBytes(65535, 2)).threw
  /\ ToInt(hton(2, ToBytes(65534, 2)).value) = htons(65534)
  /\ hton(4, ToBytes(65534, 2)).value = htonl_bytes(65534)
  /\ hton(4, <<254, 255, 255, 255>>).value = <<255, 255, 255, 254>>
  /\ hton(2, <<254, 255, 255, 255>>).threw

\* C10: numeric_cast<T>(v) returns v unchanged when T can hold v and
\* throws std::invalid_argument otherwise; hton<uint16_t>(v) is htons(v)
\* and hton<uint32_t>(v) is htonl(v), the bytes of v most significant
\* first, when T can hold v, and hton throws when it cannot.
C10_CheckedNarrowing ==
  /\ CheckedTests
  /\ cfn /= "" =>
       /\ cres.threw = ~Representable
       /\ ~cres.threw =>
            /\ Len(cres.value) = csize
            /\ cfn = "numeric_cast" => Resize(cres.value, 8) = Resize(carg, 8)
            /\ cfn = "hton" =>
                 /\ \A k \in 1..csize :
                      cres.value[k] = Resize(carg, csize)[csize + 1 - k]
                 /\ csize = 2 =>
                      ToInt(cres.value) = htons(ToInt(Resize(carg, 2)))
                 /\ (csize = 4 /\ Resize(carg, 4)[4] < 128) =>
                      cres.value = htonl_bytes(ToInt(Resize(carg, 4)))

\* hton<uint16_t>(4294967294) has thrown.
C10_Witness ==
  /\ cfn = "hton"
  /\ csize = 2
  /\ carg = <<254, 255, 255, 255>>
  /\ cres.threw


(***************************************************************************)
(* Claims about the IP and ICMP headers.                                   *)
(***************************************************************************)
\* IP::init was called, and with which TTL.
IPInitDone == bcalls /= <<>> /\ bcalls[1].fn = "IP::init"
IPInitTTL == bcalls[1].ttl
\* The 16-bit field at offset off of the buffer, read in network order.
Field16(off) == 256 * buf[off + 1] + buf[off + 2]

\* C11: once IP::init has run on an IPv4 packet with TTL t, the header has
\* version 4 and header length 5, ToS 0, the given protocol, source and
\* destination, ip_ttl = t, IP ID = t and total length = l3_size() in
\* network order, and a valid checksum: the one's-complement sum of the 20
\* header bytes, checksum field included, folds to 0xFFFF.
C11_IPv4Header ==
  (IPInitDone /\ packet.l3_protocol = IPPROTO_IP) =>
    /\ buf[1] = 4 * 16 + 5
    /\ buf[2] = 0
    /\ buf[10] = packet.l4_protocol
    /\ SubSeq(buf, 13, 16) = Src4
    /\ SubSeq(buf, 17, 20) \in Dst4
    /\ buf[9] = IPInitTTL
    /\ Field16(4) = IPInitTTL
    /\ Field16(2) = 20 + 8 + packet.payload_size
    /\ Field16(2) = l3_size(packet)
    /\ EndAround(WordSum(SubSeq(buf, 1, 20))) = 65535

\* IP::init has just run on an IPv4 UDP packet of three payload bytes whose
\* header bytes were all 0xFF, with TTL 5: the total length is 31.
C11_Witness ==
  /\ Len(bcalls) = 1
  /\ bcalls[1].fn = "IP::init"
  /\ IPInitTTL = 5
  /\ packet.l3_protocol = IPPROTO_IP
  /\ packet.l4_protocol = IPPROTO_UDP
  /\ packet.payload_size = 3
  /\ prevBuf[1] = 255
  /\ Field16(2) = 31
  /\ buf[7] = 255


\* ICMP::init or ICMPv6::init was the last function called, and returned.
EchoInitReturned ==
  /\ bcalls /= <<>>
  /\ LastCall.fn \in {"ICMP::init", "ICMPv6::init"}
  /\ bthrew = ""
\* The offset of the L4 header: after the 20 bytes of an IPv4 header or the
\* 40 bytes of an IPv6 header.
L4Offset == IF packet.l3_protocol = IPPROTO_IP THEN 20 ELSE 40

\* C12: after ICMP::init(packet, c, s) the ICMP header has type 8, code 0,
\* id = c, seq = s and checksum field = htons(c); after ICMPv6::init the
\* same with type 128.  The id and the checksum field hold the same 16 bits.
C12_EchoRequestFields ==
  EchoInitReturned =>
    /\ buf[L4Offset + 1] = IF LastCall.fn = "ICMP::init" THEN 8 ELSE 128
    /\ buf[L4Offset + 2] = 0
    /\ Field16(L4Offset + 4) = LastCall.target
    /\ Field16(L4Offset + 6) = LastCall.seq
    /\ Field16(L4Offset + 2) = LastCall.target
    /\ Load16(buf, L4Offset + 2) = htons(LastCall.target)
    /\ SubSeq(buf, L4Offset + 3, L4Offset + 4)
         = SubSeq(buf, L4Offset + 5, L4Offset + 6)

\* ICMPv6::init(packet, 0x1234, 5) has returned on a packet whose headers
\* held 0xFF bytes.
C12_Witness ==
  /\ EchoInitReturned
  /\ LastCall.fn = "ICMPv6::init"
  /\ LastCall.target = 4660
  /\ LastCall.seq = 5
  /\ prevBuf[L4Offset + 5] = 255
  /\ buf[L4Offset + 5] = 18
  /\ buf[L4Offset + 6] = 52


\* C13: once IP::init has run on an IPv6 packet with TTL t, the header has
\* version 6, traffic class 0 and flow label 0 (the first four bytes are
\* 0x60 0 0 0), next header = the given protocol, hop limit = t, the given
\* source and destination, and ip6_plen = l4_size() in network order: the
\* 8 bytes of the L4 header and the payload.
C13_IPv6Header ==
  (IPInitDone /\ packet.l3_protocol = IPPROTO_IPV6) =>
    /\ SubSeq(buf, 1, 4) = <<6 * 16, 0, 0, 0>>
    /\ buf[7] = packet.l4_protocol
    /\ buf[8] = IPInitTTL
    /\ SubSeq(buf, 9, 24) = Src6
    /\ SubSeq(buf, 25, 40) \in Dst6
    /\ Field16(4) = 8 + packet.payload_size
    /\ Field16(4) = l4_size(packet)

\* IP::init has just run on an IPv6 UDP packet of three payload bytes whose
\* header bytes were all 0xFF, with TTL 255: ip6_plen is 11.
C13_Witness ==
  /\ Len(bcalls) = 1
  /\ bcalls[1].fn = "IP::init"
  /\ IPInitTTL = 255
  /\ packet.l3_protocol = IPPROTO_IPV6
  /\ packet.l4_protocol = IPPROTO_UDP
  /\ packet.payload_size = 3
  /\ prevBuf[2] = 255
  /\ buf[2] = 0
  /\ Field16(4) = 11


(***************************************************************************)
(* Claims about the pacing of batches.                                     *)
(***************************************************************************)
\* The number of send attempts made.
Attempts == stats.sent + stats.failed

\* C14: rl.wait() is called exactly once each time the number of send
\* attempts, failed ones included, reaches a positive multiple of
\* batch_size, and at no other time: a step that calls it is one send
\* attempt that makes the total a positive multiple of batch_size, every
\* such attempt calls it, a step that attempts no send (a filtered probe
\* among them) does not, and the calls number floor(attempts / batch_size).
C14_BatchPacing ==
  [][ /\ waits' /= waits =>
           /\ waits' = waits + 1
           /\ Attempts' = Attempts + 1
           /\ Attempts' > 0
           /\ Attempts' % 128 = 0
      /\ (Attempts' /= Attempts /\ Attempts' % 128 = 0) => waits' = waits + 1
      /\ Attempts' = Attempts => waits' = waits
      /\ waits' = Attempts' \div 128
      /\ Attempts' = Len(sendLog') ]_vars

\* probe() has returned after one filtered probe and two probes of 65 send
\* attempts each, some of which failed: one wait.
C14_Witness ==
  /\ pc = "done"
  /\ Filtered = 1
  /\ Attempts = 130
  /\ stats.failed = 3
  /\ waits = 1


(***************************************************************************)
(* Claims about the sniffer and the logging thread.                        *)
(***************************************************************************)
\* C15: the sniffer is started before the first send and stopped exactly
\* once, after the last send attempt and after the sleep of lines 117-120,
\* whichever way the loop was left; probe() returns, and reads what it
\* returns, only after stop().
C15_SnifferBracketing ==
  [][ /\ sendLog' /= sendLog => snifferState = "running" /\ stopCalls = 0
      /\ snifferState' /= snifferState =>
           \/ /\ snifferState = "idle"
              /\ snifferState' = "running"
              /\ sendLog = <<>>
           \/ /\ snifferState = "running"
              /\ snifferState' = "stopped"
              /\ pc = "stop"
      /\ stopCalls' /= stopCalls =>
           stopCalls = 0 /\ stopCalls' = 1 /\ pc = "stop"
      /\ (pc' = "stop" /\ pc /= "stop") => pc = "drain"
      /\ (pc' = "drain" /\ pc /= "drain") =>
           (pc = "loop" /\ exhausted') \/ (pc = "maxcheck" /\ ~exhausted')
      /\ ret' /= ret =>
           snifferState = "stopped" /\ stopCalls = 1 /\ pc' = "done"
      /\ pc' = "done" => stopCalls' = 1 /\ snifferState' = "stopped"
    ]_vars

\* probe() has returned after the max_probes break, the sniffer stopped
\* once after the one send.
C15_Witness ==
  /\ pc = "done"
  /\ ~exhausted
  /\ config.max_probes = Some(1)
  /\ sendLog = <<1>>
  /\ stopCalls = 1
  /\ snifferState = "stopped"


\* C16: the logging thread reads the rate limiter, the prober statistics
\* and the sniffer only while the probe() that owns them is executing:
\* never after it has returned.
C16_LoggerWithinProbe == logAccess /= "dangling"


(***************************************************************************)
(* Claims about the max_probes cap.                                        *)
(***************************************************************************)
\* max_probes is configured, and at least 1.
Capped == HasValue(config.max_probes) /\ Value(config.max_probes) >= 1

\* C17: with max_probes >= 1, sent never exceeds max_probes + n_packets - 1.
\* The cap counts successful sends only: the loop is left early only with
\* sent >= max_probes, whatever failed is.  It is tested only after all
\* n_packets copies of a probe were attempted: a new probe is only read
\* with sent < max_probes, and the copies of one probe are never cut short.
C17_OvershootBound ==
  Capped =>
    /\ stats.sent <= Value(config.max_probes) + config.n_packets - 1
    /\ (AfterLoop /\ ~exhausted) => stats.sent >= Value(config.max_probes)
    /\ pc = "maxcheck" => i = config.n_packets
    /\ pc \in {"loop", "read", "filter"} =>
         stats.sent < Value(config.max_probes)
    /\ pc \in {"for", "send"} =>
         stats.sent < Value(config.max_probes) + i
    /\ AfterLoop => Len(sendLog) = config.n_packets * Len(passed)

\* The cap of 2 is overshot by one: of two probes of two copies each, the
\* first had a failed send, and the last copy of the second brought sent
\* to 3.
C17_Witness ==
  /\ pc = "maxcheck"
  /\ config.max_probes = Some(2)
  /\ config.n_packets = 2
  /\ stats.sent = 3
  /\ stats.failed = 1
  /\ sendLog[2] /= sendLog[3]


(***************************************************************************)
(* Claims about applying the tweak twice.                                  *)
(***************************************************************************)
\* UDP::set_checksum with a target was called twice in a row, and returned
\* both times.
ReApplied ==
  /\ Len(bcalls) >= 2
  /\ bcalls[Len(bcalls)].fn = "UDP::set_checksum(target)"
  /\ bcalls[Len(bcalls) - 1].fn = "UDP::set_checksum(target)"
  /\ bthrew = ""
\* The word the previous call left in the first two payload bytes, in
\* network order.
LeftWord == 256 * prevBuf[payload(packet) + 1] + prevBuf[payload(packet) + 2]

\* C18, as stated: after a second UDP::set_checksum with a target the
\* recomputed checksum is the target of that call, whatever the first call
\* left in the payload.
C18_ReapplyGivesTarget ==
  ReApplied => Recomputed(packet, buf) = LastCall.target

\* C18, amended: the second call sums the word the first call left in the
\* first two payload bytes and then overwrites it, so the recomputed
\* checksum is the one's-complement sum of the latest target and that word
\* (0x0000 and 0xFFFF both standing for zero); it is the latest target only
\* when the word is zero.
C18_ReapplyShiftsByLeftWord ==
  ReApplied =>
    /\ Recomputed(packet, buf) % 65535 = (LastCall.target + LeftWord) % 65535
    /\ LeftWord % 65535 /= 0 =>
         Recomputed(packet, buf) % 65535 /= LastCall.target % 65535

\* The checksum was forced to 0x1234 twice in a row, and is not 0x1234.
C18_Witness ==
  /\ ReApplied
  /\ bcalls[Len(bcalls) - 1].target = 4660
  /\ LastCall.target = 4660
  /\ LeftWord /= 0
  /\ Load16(buf, l4(packet) + 6) = htons(4660)
  /\ Recomputed(packet, buf) /= 4660


(***************************************************************************)
(* Claims about the sniffer statistics of Reader::read.                    *)
(***************************************************************************)
\* The replies of the frames handled so far.
ParsedReplies ==
  { Value(Parse(handled[k])) :
      k \in { j \in DOMAIN handled : HasValue(Parse(handled[j])) } }

\* C19: icmp_messages_path is a subset of icmp_messages_all; an address is
\* in icmp_messages_all iff it is the source of some parsed reply, and in
\* icmp_messages_path iff it is the source of some parsed reply whose
\* source is the quoted probe destination.  A frame that parses to no
\* reply is in neither account, so it changes neither set.
C19_SnifferStatisticsSets ==
  rpc /= "idle" =>
    /\ statistics.icmp_messages_path \subseteq statistics.icmp_messages_all
    /\ statistics.icmp_messages_all = { r.src_ip : r \in ParsedReplies }
    /\ statistics.icmp_messages_path =
         { r.src_ip : r \in { q \in ParsedReplies : q.src_ip = q.inner_dst_ip } }

\* read() has returned after a Time Exceeded from a hop, a Destination
\* Unreachable from the destination and a UDP datagram.
C19_Witness ==
  /\ rpc = "done"
  /\ \E k \in DOMAIN handled : handled[k].outer = "udp"
  /\ statistics.received_count = 3
  /\ statistics.icmp_messages_all = {"9.9.9.9", "1.2.3.4"}
  /\ statistics.icmp_messages_path = {"1.2.3.4"}

====
